---- MODULE Spec2Model ----
(***************************************************************************)
(* Dependency-based stage partitioning and staged execution of             *)
(* templates/orchestrator.py and templates/todo-management.py.             *)
(*                                                                         *)
(* A Python dict is modelled as a sequence of [key, value] entries in      *)
(* insertion order: assigning an existing key replaces its value in place, *)
(* assigning a new key appends, del removes the entry.                     *)
(* A dependency list is a sequence of ids.  The code only ever tests       *)
(* membership of each element (all(dep in completed ...)), so the inputs   *)
(* enumerate one list per set of dependency ids.                           *)
(***************************************************************************)
EXTENDS Integers, Sequences, FiniteSets, TLC

(* ---------------------------- bounds ----------------------------------- *)
MaxItems == 3
MaxDeps == 2
MaxParallel == 2

(* def execute_plan(self, plan, max_parallel: int = 3) *)
DefaultMaxParallel == 3

(* Python's None: of an object reference, and of an Optional[str] field *)
None == [none |-> TRUE]
NoneStr == "None"

(* ids of the enumerated inputs; Dangling is an id no item carries *)
Ids == {"a", "b", "c"}
Dangling == "z"
IdOrder == <<"a", "b", "c", "z">>

Range(s) == {s[i] : i \in 1..Len(s)}

IdsOf(list) == {list[i].id : i \in 1..Len(list)}

UniqueIds(list) ==
    \A i, j \in 1..Len(list) : list[i].id = list[j].id => i = j

(* ------------------------- python dict ---------------------------------- *)
DictHas(d, k) == \E i \in 1..Len(d) : d[i].key = k

DictPut(d, k, v) ==
    IF DictHas(d, k)
    THEN [i \in 1..Len(d) |-> IF d[i].key = k THEN [key |-> k, value |-> v] ELSE d[i]]
    ELSE Append(d, [key |-> k, value |-> v])

DictDel(d, k) == SelectSeq(d, LAMBDA e : e.key # k)

(* del d[k] raises KeyError when k is not a key of d *)
DelRaises(d, k) == IF DictHas(d, k) THEN NoneStr ELSE "KeyError"

(* {x.id: x for x in list} *)
RECURSIVE DictFromList(_)
DictFromList(list) ==
    IF list = <<>> THEN <<>>
    ELSE LET n == Len(list)
         IN  DictPut(DictFromList(SubSeq(list, 1, n - 1)), list[n].id, list[n])

(* ----------------------------- inputs ----------------------------------- *)
DepLists ==
    { SelectSeq(IdOrder, LAMBDA x : x \in S) :
        S \in {T \in SUBSET (Ids \cup {Dangling}) : Cardinality(T) <= MaxDeps} }

Items == [id : Ids, dependencies : DepLists]

(* AgentExecution(..., status=ExecutionStatus.PENDING, dependencies=...) *)
AgentExecution(item) ==
    [id |-> item.id, dependencies |-> item.dependencies, status |-> "pending",
     result |-> NoneStr, error |-> NoneStr]

(* Task(id, content, active_form, dependencies=...), status defaults to pending *)
Task(item) ==
    [id |-> item.id, dependencies |-> item.dependencies, status |-> "pending"]

MapSeq(s, Op(_)) == [i \in 1..Len(s) |-> Op(s[i])]

EnumeratedInputs == UNION { [1..n -> Items] : n \in 0..MaxItems }

Item(i, d) == [id |-> i, dependencies |-> d]

(* the diamond of four items *)
DiamondInput ==
    << Item("a", <<>>), Item("b", <<"a">>), Item("c", <<"a">>),
       Item("d", <<"b", "c">>) >>

(* orchestrator.py example plan *)
ExampleExecutions ==
    << Item("locate-auth", <<>>),
       Item("analyze-auth", <<"locate-auth">>),
       Item("research-jwt", <<>>),
       Item("synthesize", <<"analyze-auth", "research-jwt">>) >>

(* todo-management.py authentication decomposition *)
AuthTasks ==
    << Item("auth-1", <<>>), Item("auth-2", <<>>), Item("auth-3", <<>>),
       Item("auth-4", <<>>),
       Item("auth-5", <<"auth-1", "auth-2", "auth-3">>) >>

(* todo-management.py generic decomposition: five uuid ids, no dependencies *)
GenericTasks ==
    << Item("uuid-1", <<>>), Item("uuid-2", <<>>), Item("uuid-3", <<>>),
       Item("uuid-4", <<>>), Item("uuid-5", <<>>) >>

ScenarioInputs == {DiamondInput, ExampleExecutions, AuthTasks, GenericTasks}

Inputs == EnumeratedInputs \cup ScenarioInputs

(* the inputs whose dependencies all name ids of Ids or of the scenario *)
ExecInputs ==
    {inp \in Inputs :
        \A i \in 1..Len(inp) : Dangling \notin Range(inp[i].dependencies)}

(* ------------------- AgentOrchestrator partitioner ---------------------- *)
(* mutant: any() in place of all() *)
DepsCompleted_Any(dependencies, completed) ==
    \E i \in 1..Len(dependencies) : dependencies[i] \in completed

(* all(dep in completed_executions for dep in execution.dependencies) *)
DepsCompleted(dependencies, completed) ==
    \A i \in 1..Len(dependencies) : dependencies[i] \in completed

(* for exec_id, execution in list(remaining_executions.items()): ...        *)
(* f: [remaining_executions, completed_executions, current_stage, raised];   *)
(* raised is the exception that left the loop, None while there is none     *)
RECURSIVE ScanExecutions(_, _)

(* mutant: the loop runs over the live dict, not over list(...): the first  *)
(* del makes the iterator raise RuntimeError                                *)
ScanExecutions_NoSnapshot(snapshot, f) ==
    IF snapshot = <<>> \/ f.raised # NoneStr THEN f
    ELSE LET exec_id == Head(snapshot).key
             execution == Head(snapshot).value
         IN  IF \A i \in 1..Len(execution.dependencies) :
                    execution.dependencies[i] \in f.completed_executions
             THEN [remaining_executions |-> DictDel(f.remaining_executions, exec_id),
                   completed_executions |-> f.completed_executions \cup {exec_id},
                   current_stage |-> Append(f.current_stage, exec_id),
                   raised |-> "RuntimeError"]
             ELSE ScanExecutions(Tail(snapshot), f)

(* mutant: a break after the first item placed *)
ScanExecutions_BreakAfterFirst(snapshot, f) ==
    IF snapshot = <<>> \/ f.raised # NoneStr THEN f
    ELSE LET exec_id == Head(snapshot).key
             execution == Head(snapshot).value
         IN  IF \A i \in 1..Len(execution.dependencies) :
                    execution.dependencies[i] \in f.completed_executions
             THEN [remaining_executions |-> DictDel(f.remaining_executions, exec_id),
                   completed_executions |-> f.completed_executions \cup {exec_id},
                   current_stage |-> Append(f.current_stage, exec_id),
                   raised |-> DelRaises(f.remaining_executions, exec_id)]
             ELSE ScanExecutions(Tail(snapshot), f)

ScanExecutions(snapshot, f) ==
    IF snapshot = <<>> \/ f.raised # NoneStr THEN f
    ELSE LET exec_id == Head(snapshot).key
             execution == Head(snapshot).value
         IN  IF DepsCompleted(execution.dependencies, f.completed_executions)
             THEN ScanExecutions(Tail(snapshot),
                    [remaining_executions |-> DictDel(f.remaining_executions, exec_id),
                     completed_executions |-> f.completed_executions \cup {exec_id},
                     current_stage |-> Append(f.current_stage, exec_id),
                     raised |-> DelRaises(f.remaining_executions, exec_id)])
             ELSE ScanExecutions(Tail(snapshot), f)

(* mutant: the forced item is not deleted from remaining_executions *)
ForceExecution_NoDel(f) ==
    LET exec_id == f.remaining_executions[1].key
    IN  [remaining_executions |-> f.remaining_executions,
         completed_executions |-> f.completed_executions \cup {exec_id},
         current_stage |-> Append(f.current_stage, exec_id),
         raised |-> NoneStr]

(* mutant: popitem() style, the last remaining key is forced *)
ForceExecution_TakesLast(f) ==
    LET exec_id == f.remaining_executions[Len(f.remaining_executions)].key
    IN  [remaining_executions |-> DictDel(f.remaining_executions, exec_id),
         completed_executions |-> f.completed_executions \cup {exec_id},
         current_stage |-> Append(f.current_stage, exec_id),
         raised |-> DelRaises(f.remaining_executions, exec_id)]

(* else branch: the first remaining key becomes a stage of its own *)
ForceExecution(f) ==
    LET exec_id == f.remaining_executions[1].key
    IN  [remaining_executions |-> DictDel(f.remaining_executions, exec_id),
         completed_executions |-> f.completed_executions \cup {exec_id},
         current_stage |-> Append(f.current_stage, exec_id),
         raised |-> DelRaises(f.remaining_executions, exec_id)]

(* mutant: the else branch does not increment stage *)
CalcGroupsBody_NoStageIncrement(g) ==
    LET scanned == ScanExecutions(g.remaining_executions,
                     [remaining_executions |-> g.remaining_executions,
                      completed_executions |-> g.completed_executions,
                      current_stage |-> <<>>,
                      raised |-> NoneStr])
    IN  IF scanned.current_stage # <<>>
        THEN [parallel_groups |-> DictPut(g.parallel_groups, g.stage, scanned.current_stage),
              stage |-> g.stage + 1,
              remaining_executions |-> scanned.remaining_executions,
              completed_executions |-> scanned.completed_executions,
              raised |-> NoneStr]
        ELSE IF scanned.remaining_executions # <<>>
        THEN LET forced == ForceExecution(scanned)
             IN  [parallel_groups |-> DictPut(g.parallel_groups, g.stage, forced.current_stage),
                  stage |-> g.stage,
                  remaining_executions |-> forced.remaining_executions,
                  completed_executions |-> forced.completed_executions,
                  raised |-> forced.raised]
        ELSE g

(* one iteration of `while remaining_executions:`                           *)
(* g: [parallel_groups, stage, remaining_executions, completed_executions,  *)
(*     raised]                                                              *)
CalcGroupsBody(g) ==
    LET scanned == ScanExecutions(g.remaining_executions,
                     [remaining_executions |-> g.remaining_executions,
                      completed_executions |-> g.completed_executions,
                      current_stage |-> <<>>,
                      raised |-> NoneStr])
    IN  IF scanned.raised # NoneStr
        THEN [g EXCEPT !.remaining_executions = scanned.remaining_executions,
                       !.completed_executions = scanned.completed_executions,
                       !.raised = scanned.raised]
        ELSE IF scanned.current_stage # <<>>
        THEN [parallel_groups |-> DictPut(g.parallel_groups, g.stage, scanned.current_stage),
              stage |-> g.stage + 1,
              remaining_executions |-> scanned.remaining_executions,
              completed_executions |-> scanned.completed_executions,
              raised |-> NoneStr]
        ELSE IF scanned.remaining_executions # <<>>
        THEN LET forced == ForceExecution(scanned)
             IN  [parallel_groups |-> DictPut(g.parallel_groups, g.stage, forced.current_stage),
                  stage |-> g.stage + 1,
                  remaining_executions |-> forced.remaining_executions,
                  completed_executions |-> forced.completed_executions,
                  raised |-> forced.raised]
        ELSE g

(* mutant: the result starts with an empty stage_0 *)
CalcGroupsStart_PreCreatesStage(execs) ==
    [parallel_groups |-> <<[key |-> 0, value |-> <<>>]>>,
     stage |-> 0,
     remaining_executions |-> DictFromList(execs),
     completed_executions |-> {},
     raised |-> NoneStr]

(* lines 106-109 *)
CalcGroupsStart(execs) ==
    [parallel_groups |-> <<>>,
     stage |-> 0,
     remaining_executions |-> DictFromList(execs),
     completed_executions |-> {},
     raised |-> NoneStr]

(* ----------------------- TodoManager partitioner ------------------------ *)
(* all(dep in completed_tasks for dep in task.dependencies) *)
TaskDepsCompleted(dependencies, completed) ==
    \A i \in 1..Len(dependencies) : dependencies[i] \in completed

(* f: [remaining_tasks, completed_tasks, current_stage, raised] *)
RECURSIVE ScanTasks(_, _)
ScanTasks(snapshot, f) ==
    IF snapshot = <<>> \/ f.raised # NoneStr THEN f
    ELSE LET task_id == Head(snapshot).key
             task == Head(snapshot).value
         IN  IF TaskDepsCompleted(task.dependencies, f.completed_tasks)
             THEN ScanTasks(Tail(snapshot),
                    [remaining_tasks |-> DictDel(f.remaining_tasks, task_id),
                     completed_tasks |-> f.completed_tasks \cup {task_id},
                     current_stage |-> Append(f.current_stage, task_id),
                     raised |-> DelRaises(f.remaining_tasks, task_id)])
             ELSE ScanTasks(Tail(snapshot), f)

(* mutant: the todo copy forces the last remaining key, the other the first *)
ForceTask_TakesLast(f) ==
    LET task_id == f.remaining_tasks[Len(f.remaining_tasks)].key
    IN  [remaining_tasks |-> DictDel(f.remaining_tasks, task_id),
         completed_tasks |-> f.completed_tasks \cup {task_id},
         current_stage |-> Append(f.current_stage, task_id),
         raised |-> DelRaises(f.remaining_tasks, task_id)]

(* else branch, lines 122-127 *)
ForceTask(f) ==
    LET task_id == f.remaining_tasks[1].key
    IN  [remaining_tasks |-> DictDel(f.remaining_tasks, task_id),
         completed_tasks |-> f.completed_tasks \cup {task_id},
         current_stage |-> Append(f.current_stage, task_id),
         raised |-> DelRaises(f.remaining_tasks, task_id)]

(* g: [parallel_groups, stage, remaining_tasks, completed_tasks, raised] *)
IdentifyBody(g) ==
    LET scanned == ScanTasks(g.remaining_tasks,
                     [remaining_tasks |-> g.remaining_tasks,
                      completed_tasks |-> g.completed_tasks,
                      current_stage |-> <<>>,
                      raised |-> NoneStr])
    IN  IF scanned.raised # NoneStr
        THEN [g EXCEPT !.remaining_tasks = scanned.remaining_tasks,
                       !.completed_tasks = scanned.completed_tasks,
                       !.raised = scanned.raised]
        ELSE IF scanned.current_stage # <<>>
        THEN [parallel_groups |-> DictPut(g.parallel_groups, g.stage, scanned.current_stage),
              stage |-> g.stage + 1,
              remaining_tasks |-> scanned.remaining_tasks,
              completed_tasks |-> scanned.completed_tasks,
              raised |-> NoneStr]
        ELSE IF scanned.remaining_tasks # <<>>
        THEN LET forced == ForceTask(scanned)
             IN  [parallel_groups |-> DictPut(g.parallel_groups, g.stage, forced.current_stage),
                  stage |-> g.stage + 1,
                  remaining_tasks |-> forced.remaining_tasks,
                  completed_tasks |-> forced.completed_tasks,
                  raised |-> forced.raised]
        ELSE g

(* lines 103-108 *)
IdentifyStart(ts) ==
    [parallel_groups |-> <<>>,
     stage |-> 0,
     remaining_tasks |-> DictFromList(ts),
     completed_tasks |-> {},
     raised |-> NoneStr]

(* ---------------------------- execute_plan ------------------------------ *)
(* mutant: the comprehension without its `if exec.id in execution_ids` *)
StageExecutions_NoFilter(execs, execution_ids) ==
    [i \in 1..Len(execs) |-> i]

(* mutant: the stage's executions are taken in the reverse of list order *)
StageExecutions_Reversed(execs, execution_ids) ==
    LET sel == SelectSeq([i \in 1..Len(execs) |-> i],
                         LAMBDA i : execs[i].id \in Range(execution_ids))
    IN  [k \in 1..Len(sel) |-> sel[Len(sel) + 1 - k]]

(* [exec for exec in plan.executions if exec.id in execution_ids], as the   *)
(* positions of the selected objects in plan.executions                     *)
StageExecutions(execs, execution_ids) ==
    SelectSeq([i \in 1..Len(execs) |-> i],
              LAMBDA i : execs[i].id \in Range(execution_ids))

Min(x, y) == IF x <= y THEN x ELSE y

(* [stage_executions[i:i + max_parallel] for i in range(0, len, max_parallel)] *)
Chunks(stage_executions, m) ==
    LET n == Len(stage_executions)
    IN  [j \in 1..((n + m - 1) \div m) |->
            SubSeq(stage_executions, (j - 1) * m + 1, Min(j * m, n))]

(* random.random() < success_rate picks one of the two branches *)
Outcomes == {"completed", "failed"}

(* the dict returned by _simulate_agent_execution *)
ResultOf(execution) ==
    [id |-> execution.id, status |-> execution.status,
     result |-> execution.result, error |-> execution.error]

(* mutant: a stage adds one to a counter, however many of its results have *)
(* the status                                                              *)
CountStatus_PerStage(stage_results, st) ==
    IF \E i \in 1..Len(stage_results) : stage_results[i].status = st
    THEN 1 ELSE 0

(* len([r for r in stage_results if r['status'] == ...]), lines 176-182 *)
CountStatus(stage_results, st) ==
    Cardinality({i \in 1..Len(stage_results) : stage_results[i].status = st})

(* ------------------------------ state ----------------------------------- *)
VARIABLES
    executions,   \* agent_executions of create_execution_plan = plan.executions
    tasks,        \* the list passed to identify_parallel_opportunities
    pc,           \* control position; "raised" once an exception left a call
    calc,         \* locals of _calculate_parallel_groups, None outside a call
    identify,     \* locals of identify_parallel_opportunities, None outside a call
    plan,         \* the ExecutionPlan (its executions are `executions`), None before
    todo_plan,    \* the plan dict of the TodoManager, None before
    max_parallel, \* argument of execute_plan
    results,      \* results of execute_plan, None before the call
    run,          \* locals of execute_plan, None outside a call
    chunk,        \* locals of _execute_parallel_chunk, None outside a call
    runs,         \* history: how often each execution entered _simulate_agent_execution
    previous      \* history: what the call before the latest one returned

partVars == <<executions, tasks, calc, identify, plan, todo_plan>>
execVars == <<previous, max_parallel, results, run, chunk, runs>>
vars == <<executions, tasks, pc, calc, identify, plan, todo_plan,
          previous, max_parallel, results, run, chunk, runs>>

InitFrom(inputs, parallels) ==
    /\ \E inp \in inputs :
          /\ executions = MapSeq(inp, AgentExecution)
          /\ tasks = MapSeq(inp, Task)
          /\ runs = [i \in 1..Len(inp) |-> 0]
    /\ pc = "idle"
    /\ calc = None
    /\ identify = None
    /\ plan = None
    /\ todo_plan = None
    /\ max_parallel \in parallels
    /\ results = None
    /\ run = None
    /\ chunk = None
    /\ previous = [plan |-> None, todo_plan |-> None]

(* both partitioners are given the same item list *)
Init == InitFrom(Inputs, {DefaultMaxParallel})

(* create_execution_plan calls _calculate_parallel_groups: lines 106-109 *)
CalcGroupsEnter ==
    /\ pc = "idle"
    /\ plan = None
    /\ calc' = CalcGroupsStart(executions)
    /\ pc' = "calc"
    /\ UNCHANGED <<executions, tasks, identify, plan, todo_plan>>
    /\ UNCHANGED execVars

(* mutant: remaining_executions is the caller's list itself, not a dict    *)
(* built from it, so placing an item removes it from the caller's list     *)
CalcGroupsIterate_ConsumesList ==
    /\ pc = "calc"
    /\ calc.remaining_executions # <<>>
    /\ calc' = CalcGroupsBody(calc)
    /\ pc' = IF calc'.raised # NoneStr THEN "raised" ELSE "calc"
    /\ executions' = SelectSeq(executions,
                        LAMBDA e : DictHas(calc'.remaining_executions, e.id))
    /\ UNCHANGED <<tasks, identify, plan, todo_plan>>
    /\ UNCHANGED execVars

(* one pass of the while loop, lines 111-130 *)
CalcGroupsIterate ==
    /\ pc = "calc"
    /\ calc.remaining_executions # <<>>
    /\ calc' = CalcGroupsBody(calc)
    /\ pc' = IF calc'.raised # NoneStr THEN "raised" ELSE "calc"
    /\ UNCHANGED <<executions, tasks, identify, plan, todo_plan>>
    /\ UNCHANGED execVars

(* loop exit and return, line 132; the plan keeps the result, line 98 *)
CalcGroupsReturn ==
    /\ pc = "calc"
    /\ calc.remaining_executions = <<>>
    /\ plan' = [parallel_groups |-> calc.parallel_groups]
    /\ calc' = None
    /\ pc' = "idle"
    /\ UNCHANGED <<executions, tasks, identify, todo_plan>>
    /\ UNCHANGED execVars

(* identify_parallel_opportunities, lines 103-108 *)
IdentifyEnter ==
    /\ pc = "idle"
    /\ todo_plan = None
    /\ identify' = IdentifyStart(tasks)
    /\ pc' = "identify"
    /\ UNCHANGED <<executions, tasks, calc, plan, todo_plan>>
    /\ UNCHANGED execVars

(* one pass of the while loop, lines 110-129 *)
IdentifyIterate ==
    /\ pc = "identify"
    /\ identify.remaining_tasks # <<>>
    /\ identify' = IdentifyBody(identify)
    /\ pc' = IF identify'.raised # NoneStr THEN "raised" ELSE "identify"
    /\ UNCHANGED <<executions, tasks, calc, plan, todo_plan>>
    /\ UNCHANGED execVars

(* loop exit and return, line 131; generate_execution_plan keeps it, line 73 *)
IdentifyReturn ==
    /\ pc = "identify"
    /\ identify.remaining_tasks = <<>>
    /\ todo_plan' = [parallel_groups |-> identify.parallel_groups]
    /\ identify' = None
    /\ pc' = "idle"
    /\ UNCHANGED <<executions, tasks, calc, plan>>
    /\ UNCHANGED execVars

Next ==
    \/ CalcGroupsEnter
    \/ CalcGroupsIterate
    \/ CalcGroupsReturn
    \/ IdentifyEnter
    \/ IdentifyIterate
    \/ IdentifyReturn

Spec == Init /\ [][Next]_vars

(* ------------------------- a second call -------------------------------- *)
(* create_execution_plan is called once more on the same list: the plan of *)
(* the first call is remembered, lines 92, 106-109                         *)
CalcGroupsReenter ==
    /\ pc = "idle"
    /\ plan # None
    /\ results = None
    /\ previous.plan = None
    /\ previous' = [previous EXCEPT !.plan = plan]
    /\ calc' = CalcGroupsStart(executions)
    /\ pc' = "calc"
    /\ UNCHANGED <<executions, tasks, identify, plan, todo_plan>>
    /\ UNCHANGED <<max_parallel, results, run, chunk, runs>>

(* identify_parallel_opportunities is called once more on the same list,   *)
(* lines 103-108                                                           *)
IdentifyReenter ==
    /\ pc = "idle"
    /\ todo_plan # None
    /\ previous.todo_plan = None
    /\ previous' = [previous EXCEPT !.todo_plan = todo_plan]
    /\ identify' = IdentifyStart(tasks)
    /\ pc' = "identify"
    /\ UNCHANGED <<executions, tasks, calc, plan, todo_plan>>
    /\ UNCHANGED <<max_parallel, results, run, chunk, runs>>

AgainNext ==
    \/ CalcGroupsEnter
    \/ CalcGroupsIterate
    \/ CalcGroupsReturn
    \/ CalcGroupsReenter
    \/ IdentifyEnter
    \/ IdentifyIterate
    \/ IdentifyReturn
    \/ IdentifyReenter

AgainSpec == Init /\ [][AgainNext]_vars

(* ------------------------- execute_plan steps --------------------------- *)
(* lines 136-148: results initialised, the stage loop starts *)
ExecutePlanEnter ==
    /\ pc = "idle"
    /\ plan # None
    /\ results = None
    /\ results' = [total_tasks |-> Len(executions), completed_tasks |-> 0,
                   failed_tasks |-> 0, skipped_tasks |-> 0, stage_results |-> <<>>]
    /\ run' = [stage_pos |-> 1, stage_executions |-> <<>>, chunks |-> <<>>,
               chunk_pos |-> 1, stage_results |-> <<>>]
    /\ pc' = "stages"
    /\ UNCHANGED <<partVars, previous, max_parallel, chunk, runs>>

(* lines 151-162: next stage of plan.parallel_groups.items() *)
StageBegin ==
    /\ pc = "stages"
    /\ run.stage_pos <= Len(plan.parallel_groups)
    /\ LET execution_ids == plan.parallel_groups[run.stage_pos].value
           stage_executions == StageExecutions(executions, execution_ids)
       IN  run' = [run EXCEPT !.stage_executions = stage_executions,
                              !.chunks = Chunks(stage_executions, max_parallel),
                              !.chunk_pos = 1,
                              !.stage_results = <<>>]
    /\ pc' = "chunks"
    /\ UNCHANGED <<partVars, previous, max_parallel, results, chunk, runs>>

(* lines 163-164, 195: _execute_parallel_chunk(chunk) is entered *)
ChunkBegin ==
    /\ pc = "chunks"
    /\ run.chunk_pos <= Len(run.chunks)
    /\ chunk' = [executions |-> run.chunks[run.chunk_pos], pos |-> 1, results |-> <<>>]
    /\ pc' = "chunk"
    /\ UNCHANGED <<partVars, previous, max_parallel, results, run, runs>>

(* lines 197-199, 206-212: the next execution of the chunk is set RUNNING *)
SimulateStart ==
    /\ pc = "chunk"
    /\ chunk.pos <= Len(chunk.executions)
    /\ LET i == chunk.executions[chunk.pos]
       IN  /\ executions' = [executions EXCEPT ![i].status = "running"]
           /\ runs' = [runs EXCEPT ![i] = @ + 1]
    /\ pc' = "running"
    /\ UNCHANGED <<tasks, calc, identify, plan, todo_plan,
                   previous, max_parallel, results, run, chunk>>

(* mutant: a failed execution raises instead of returning its result dict *)
SimulateFinish_FailureRaises ==
    /\ pc = "running"
    /\ \E outcome \in {"completed", "failed"} :
          LET i == chunk.executions[chunk.pos]
              done == IF outcome = "completed"
                      THEN [executions[i] EXCEPT !.status = "completed",
                                                 !.result = "Successfully completed"]
                      ELSE [executions[i] EXCEPT !.status = "failed",
                                                 !.error = "Failed to complete"]
          IN  /\ executions' = [executions EXCEPT ![i] = done]
              /\ chunk' = [chunk EXCEPT !.results = Append(@, [id |-> done.id,
                                 status |-> done.status, result |-> done.result,
                                 error |-> done.error]),
                                        !.pos = @ + 1]
              /\ pc' = IF outcome = "failed" THEN "raised" ELSE "chunk"
    /\ UNCHANGED <<tasks, calc, identify, plan, todo_plan,
                   previous, max_parallel, results, run, runs>>

(* lines 214-234, 200: the coin flip, then the result dict is appended *)
SimulateFinish ==
    /\ pc = "running"
    /\ \E outcome \in Outcomes :
          LET i == chunk.executions[chunk.pos]
              done == IF outcome = "completed"
                      THEN [executions[i] EXCEPT !.status = "completed",
                                                 !.result = "Successfully completed"]
                      ELSE [executions[i] EXCEPT !.status = "failed",
                                                 !.error = "Failed to complete"]
          IN  /\ executions' = [executions EXCEPT ![i] = done]
              /\ chunk' = [chunk EXCEPT !.results = Append(@, ResultOf(done)),
                                        !.pos = @ + 1]
    /\ pc' = "chunk"
    /\ UNCHANGED <<tasks, calc, identify, plan, todo_plan,
                   previous, max_parallel, results, run, runs>>

(* lines 202, 165: the chunk returns, stage_results.extend(chunk_results) *)
ChunkEnd ==
    /\ pc = "chunk"
    /\ chunk.pos > Len(chunk.executions)
    /\ run' = [run EXCEPT !.stage_results = @ \o chunk.results,
                          !.chunk_pos = @ + 1]
    /\ chunk' = None
    /\ pc' = "chunks"
    /\ UNCHANGED <<partVars, previous, max_parallel, results, runs>>

(* lines 167-182: the stage's entry and the overall statistics *)
StageEnd ==
    /\ pc = "chunks"
    /\ run.chunk_pos > Len(run.chunks)
    /\ LET stage_name == plan.parallel_groups[run.stage_pos].key
           execution_ids == plan.parallel_groups[run.stage_pos].value
       IN  results' =
             [results EXCEPT
                !.stage_results = DictPut(@, stage_name,
                                     [executions |-> Len(execution_ids),
                                      results |-> run.stage_results]),
                !.completed_tasks = @ + CountStatus(run.stage_results, "completed"),
                !.failed_tasks = @ + CountStatus(run.stage_results, "failed"),
                !.skipped_tasks = @ + CountStatus(run.stage_results, "skipped")]
    /\ run' = [run EXCEPT !.stage_pos = @ + 1]
    /\ pc' = "stages"
    /\ UNCHANGED <<partVars, previous, max_parallel, chunk, runs>>

(* lines 184-191: the stage loop is exhausted, results are returned *)
ExecutePlanReturn ==
    /\ pc = "stages"
    /\ run.stage_pos > Len(plan.parallel_groups)
    /\ run' = None
    /\ pc' = "returned"
    /\ UNCHANGED <<partVars, previous, max_parallel, results, chunk, runs>>

ExecInit == InitFrom(ExecInputs, 1..MaxParallel)

ExecNext ==
    \/ CalcGroupsEnter
    \/ CalcGroupsIterate
    \/ CalcGroupsReturn
    \/ ExecutePlanEnter
    \/ StageBegin
    \/ ChunkBegin
    \/ SimulateStart
    \/ SimulateFinish
    \/ ChunkEnd
    \/ StageEnd
    \/ ExecutePlanReturn

ExecSpec == ExecInit /\ [][ExecNext]_vars

(* A running call goes on: the interpreter executes the loop and the return. *)
(* The dict built on entry holds one entry per id, so the loops run on lists *)
(* of unique ids whatever the input; the fair behaviours start from those.   *)
UniqueInputs == {inp \in Inputs : UniqueIds(inp)}

FairInit == InitFrom(UniqueInputs, {DefaultMaxParallel})

FairSpec ==
    /\ FairInit
    /\ [][Next]_vars
    /\ WF_vars(CalcGroupsIterate)
    /\ WF_vars(CalcGroupsReturn)
    /\ WF_vars(IdentifyIterate)
    /\ WF_vars(IdentifyReturn)

(* ------------------- vocabulary of the properties ----------------------- *)
(* the dependencies the id's dict entry carries: those of its last item *)
EffectiveDeps(list, x) ==
    LET i == CHOOSE k \in 1..Len(list) :
                 /\ list[k].id = x
                 /\ \A j \in (k + 1)..Len(list) : list[j].id # x
    IN  Range(list[i].dependencies)

RECURSIVE ReachClosure(_, _, _)
ReachClosure(list, S, n) ==
    IF n = 0 THEN S
    ELSE ReachClosure(list,
           S \cup UNION {EffectiveDeps(list, y) : y \in S \cap IdsOf(list)}, n - 1)

(* the ids x depends on, directly or through other items *)
Reaches(list, x) == ReachClosure(list, EffectiveDeps(list, x), Len(list))

OnCycle(list, x) == x \in Reaches(list, x)

Acyclic(list) == \A x \in IdsOf(list) : ~OnCycle(list, x)

HasDangling(list, x) == \E d \in EffectiveDeps(list, x) : d \notin IdsOf(list)

RECURSIVE Flatten(_)
Flatten(groups) ==
    IF groups = <<>> THEN <<>>
    ELSE groups[1].value \o Flatten(Tail(groups))

Occurrences(seq, x) == Cardinality({k \in 1..Len(seq) : seq[k] = x})

(* the entry of the stage that holds x *)
EntryOf(groups, x) ==
    groups[CHOOSE p \in 1..Len(groups) : x \in Range(groups[p].value)]

StageOf(groups, x) == EntryOf(groups, x).key

Alone(groups, x) == EntryOf(groups, x).value = <<x>>

(* a property of the result of either partitioner, once it has returned *)
OfBothResults(P(_, _)) ==
    /\ plan # None => P(executions, plan.parallel_groups)
    /\ todo_plan # None => P(tasks, todo_plan.parallel_groups)

BothReturned == plan # None /\ todo_plan # None

(* ------------------------------- C1 ------------------------------------- *)
DepsInEarlierStages(list, groups) ==
    (UniqueIds(list) /\ Acyclic(list)) =>
        \A x \in IdsOf(list) : \A d \in EffectiveDeps(list, x) \cap IdsOf(list) :
            StageOf(groups, d) < StageOf(groups, x)

(* C1: for an acyclic dependency set with unique ids, every item is in a   *)
(* stage whose index is strictly greater than that of each dependency      *)
C1_DependenciesInEarlierStages == OfBothResults(DepsInEarlierStages)

(* ------------------------------- C2 ------------------------------------- *)
EveryIdOnce(list, groups) ==
    UniqueIds(list) =>
        /\ Range(Flatten(groups)) \subseteq IdsOf(list)
        /\ \A x \in IdsOf(list) : Occurrences(Flatten(groups), x) = 1

(* C2: with unique ids the returned stages together hold every input id    *)
(* exactly once, whether the input is acyclic, cyclic, self-dependent or   *)
(* has dangling dependencies                                               *)
C2_EveryIdExactlyOnce == OfBothResults(EveryIdOnce)

C2_Witness ==
    /\ BothReturned
    /\ UniqueIds(executions)
    /\ Len(executions) = 3
    /\ \E x \in IdsOf(executions) : OnCycle(executions, x) /\ x \notin EffectiveDeps(executions, x)
    /\ \E x \in IdsOf(executions) : HasDangling(executions, x)

(* ------------------------------- C3 ------------------------------------- *)
IsDiamond(list) ==
    /\ Len(list) = 4
    /\ \A i \in 1..4 : /\ list[i].id = DiamondInput[i].id
                       /\ list[i].dependencies = DiamondInput[i].dependencies

DiamondStages(list, groups) ==
    IsDiamond(list) =>
        /\ Len(groups) = 3
        /\ Range(groups[1].value) = {"a"}
        /\ Range(groups[2].value) = {"b", "c"}
        /\ Range(groups[3].value) = {"d"}

(* C3: the diamond a, b (a), c (a), d (b, c) yields exactly the three      *)
(* stages {a}, {b, c}, {d} in that sequence                                *)
C3_DiamondThreeStages == OfBothResults(DiamondStages)

(* ------------------------------- C4 ------------------------------------- *)
StagesBounded(list, groups) ==
    /\ Len(groups) <= Len(list)
    /\ \A p \in 1..Len(groups) : groups[p].value # <<>>

IterationPlaces ==
    /\ CalcGroupsIterate =>
          /\ Len(calc'.remaining_executions) < Len(calc.remaining_executions)
          /\ Len(calc'.parallel_groups) = Len(calc.parallel_groups) + 1
    /\ IdentifyIterate =>
          /\ Len(identify'.remaining_tasks) < Len(identify.remaining_tasks)
          /\ Len(identify'.parallel_groups) = Len(identify.parallel_groups) + 1

(* C4: for every input the loop terminates, every iteration places at      *)
(* least one item, no stage is empty and there are at most as many stages  *)
(* as input items                                                          *)
C4_LoopTerminates ==
    /\ [](/\ OfBothResults(StagesBounded)
          /\ pc = "calc" => StagesBounded(executions, calc.parallel_groups)
          /\ pc = "identify" => StagesBounded(tasks, identify.parallel_groups))
    /\ [][IterationPlaces]_vars
    /\ (pc = "calc") ~> (plan # None)
    /\ (pc = "identify") ~> (todo_plan # None)

C4_Witness ==
    /\ BothReturned
    /\ Len(plan.parallel_groups) = 3
    /\ Len(todo_plan.parallel_groups) = 3
    /\ \E x \in IdsOf(executions) : OnCycle(executions, x)
    /\ \E x \in IdsOf(executions) : HasDangling(executions, x)

(* ------------------------------- C5 ------------------------------------- *)
SelfDependent(list, x) == x \in EffectiveDeps(list, x)

UnsatisfiableAlone(list, groups) ==
    \A x \in IdsOf(list) :
        (OnCycle(list, x) \/ HasDangling(list, x)) => Alone(groups, x)

(* C5 as stated: every item on a dependency cycle, with a self-dependency  *)
(* or with a dangling dependency is alone in its stage, and no error is    *)
(* raised                                                                  *)
C5_UnsatisfiableItemsAlone ==
    /\ pc # "raised"
    /\ OfBothResults(UnsatisfiableAlone)

ForcedAlone(list, groups) ==
    /\ \A x \in IdsOf(list) :
          (SelfDependent(list, x) \/ HasDangling(list, x)) => Alone(groups, x)
    /\ \A x \in IdsOf(list) :
          OnCycle(list, x) =>
              \E y \in IdsOf(list) :
                  /\ y = x \/ (y \in Reaches(list, x) /\ x \in Reaches(list, y))
                  /\ Alone(groups, y)

(* C5 amended: every item with a self-dependency or a dangling dependency  *)
(* is alone in its stage, every dependency cycle has at least one member   *)
(* that is alone in its stage, and no error is raised                      *)
C5_ForcedItemsAlone ==
    /\ pc # "raised"
    /\ OfBothResults(ForcedAlone)

C5_Witness ==
    /\ BothReturned
    /\ \E x \in IdsOf(executions) :
          OnCycle(executions, x) /\ ~Alone(plan.parallel_groups, x)
             /\ ~Alone(todo_plan.parallel_groups, x)
    /\ \E x \in IdsOf(executions) :
          HasDangling(executions, x) /\ Alone(plan.parallel_groups, x)

(* ------------------------------- C6 ------------------------------------- *)
TwoItemCycle(list) ==
    /\ Len(list) = 2
    /\ list[1].id # list[2].id
    /\ list[1].dependencies = <<list[2].id>>
    /\ list[2].dependencies = <<list[1].id>>

TwoSingletons(list, groups) ==
    TwoItemCycle(list) =>
        /\ Len(groups) = 2
        /\ Len(groups[1].value) = 1
        /\ Len(groups[2].value) = 1
        /\ {groups[1].value[1], groups[2].value[1]} = IdsOf(list)

(* C6: a two-item cycle, in either input order, ends without error in      *)
(* exactly two stages, each holding one of the two items                   *)
C6_TwoCycleTwoSingletons ==
    /\ TwoItemCycle(executions) => pc # "raised"
    /\ OfBothResults(TwoSingletons)

C6_Witness ==
    /\ BothReturned
    /\ TwoItemCycle(executions)
    /\ plan.parallel_groups[1].value = <<executions[1].id>>

(* ------------------------------- C7 ------------------------------------- *)
NoDependencies(list) ==
    /\ Len(list) >= 1
    /\ UniqueIds(list)
    /\ \A i \in 1..Len(list) : list[i].dependencies = <<>>

OneStageOfAll(list, groups) ==
    NoDependencies(list) =>
        /\ Len(groups) = 1
        /\ groups[1].key = 0
        /\ Len(groups[1].value) = Len(list)
        /\ Range(groups[1].value) = IdsOf(list)

(* C7: N >= 1 items with unique ids and no dependencies give exactly one   *)
(* stage, stage_0, holding all N items                                     *)
C7_NoDependenciesOneStage == OfBothResults(OneStageOfAll)

C7_Witness ==
    /\ BothReturned
    /\ NoDependencies(tasks)
    /\ Len(tasks) = 5

(* ------------------------------- C8 ------------------------------------- *)
(* C8: with zero items the loop is not entered and the result is the empty *)
(* stage sequence                                                          *)
C8_EmptyInputEmptyResult ==
    /\ [](Len(executions) = 0 =>
            /\ plan # None => plan.parallel_groups = <<>>
            /\ pc = "calc" => calc.parallel_groups = <<>>)
    /\ [](Len(tasks) = 0 =>
            /\ todo_plan # None => todo_plan.parallel_groups = <<>>
            /\ pc = "identify" => identify.parallel_groups = <<>>)
    /\ [][Len(executions) = 0 => ~CalcGroupsIterate]_vars
    /\ [][Len(tasks) = 0 => ~IdentifyIterate]_vars

C8_Witness ==
    /\ BothReturned
    /\ Len(executions) = 0
    /\ plan.parallel_groups = <<>>
    /\ todo_plan.parallel_groups = <<>>

(* ------------------------------- C9 ------------------------------------- *)
Finished(i) == executions[i].status \in {"completed", "failed"}

(* position in plan.parallel_groups of the stage that holds execution i *)
StagePos(i) ==
    CHOOSE p \in 1..Len(plan.parallel_groups) :
        executions[i].id \in Range(plan.parallel_groups[p].value)

Running == {i \in 1..Len(executions) : executions[i].status = "running"}

(* C9: every execution of an earlier stage is completed or failed before   *)
(* an execution of a later stage is set to running, and never more than    *)
(* max_parallel executions are running                                     *)
C9_StageBarrier ==
    plan # None =>
        /\ \A i, j \in 1..Len(executions) :
              (StagePos(i) < StagePos(j) /\ executions[j].status # "pending")
                  => Finished(i)
        /\ Cardinality(Running) <= max_parallel

C9_Witness ==
    /\ pc = "running"
    /\ UniqueIds(executions)
    /\ run.stage_pos = 2
    /\ Len(run.chunks) = 2
    /\ run.chunk_pos = 2
    /\ \E i \in 1..Len(executions) : executions[i].status = "failed"

(* ------------------------------- C10 ------------------------------------ *)
(* C10: a failure is data: the failed execution carries an error, nothing  *)
(* is raised, nothing is run twice, the run goes on after a failure, and   *)
(* on return every execution has run exactly once and is completed or      *)
(* failed                                                                  *)
C10_FailureIsData ==
    /\ pc # "raised"
    /\ \A i \in 1..Len(executions) :
          /\ runs[i] <= 1
          /\ executions[i].status = "failed" => executions[i].error # NoneStr
    /\ pc # "returned" => ENABLED ExecNext
    /\ pc = "returned" =>
          \A i \in 1..Len(executions) : runs[i] = 1 /\ Finished(i)

C10_Witness ==
    /\ pc = "returned"
    /\ \E i, j \in 1..Len(executions) :
          /\ executions[i].id \in Range(executions[j].dependencies)
          /\ executions[i].status = "failed"
          /\ executions[j].status = "completed"
          /\ StagePos(i) < StagePos(j)

Unplaced(list, groups) ==
    {x \in IdsOf(list) : x \notin Range(Flatten(groups))}

Placeable(list, groups) ==
    {x \in Unplaced(list, groups) :
        EffectiveDeps(list, x) \subseteq Range(Flatten(groups))}

FirstUnplaced(list, groups) ==
    list[CHOOSE k \in 1..Len(list) :
            /\ list[k].id \in Unplaced(list, groups)
            /\ \A j \in 1..(k - 1) : list[j].id \notin Unplaced(list, groups)].id

(* one pass of the loop took groups to after: with a placeable id no member *)
(* of the new stage is forced, without one the new stage is the first       *)
(* unplaced id alone, its unplaced dependencies notwithstanding             *)
ForcingRule(list, groups, after) ==
    LET new == after[Len(after)].value
    IN  /\ Len(after) = Len(groups) + 1
        /\ SubSeq(after, 1, Len(groups)) = groups
        /\ Placeable(list, groups) # {} =>
              \A p \in 1..Len(new) :
                  EffectiveDeps(list, new[p]) \subseteq
                      (Range(Flatten(groups)) \cup {new[q] : q \in 1..(p - 1)})
        /\ Placeable(list, groups) = {} =>
              /\ new = <<FirstUnplaced(list, groups)>>
              /\ ~(EffectiveDeps(list, new[1]) \subseteq Range(Flatten(groups)))

(* C12: a stage is forced only when no unplaced item has all its           *)
(* dependencies placed; the forced item is the first unplaced item of the  *)
(* input, alone in its stage, whatever its dependencies                    *)
C12_ForcedOnlyWhenStuck ==
    [][/\ (pc = "calc" /\ pc' = "calc") =>
              ForcingRule(executions, calc.parallel_groups, calc'.parallel_groups)
       /\ (pc = "identify" /\ pc' = "identify") =>
              ForcingRule(tasks, identify.parallel_groups, identify'.parallel_groups)
      ]_vars

(* a(), b(c), c(b): after [a] the scan places nothing and b, not c, is forced *)
C12_Witness ==
    /\ pc = "identify"
    /\ plan # None
    /\ Len(plan.parallel_groups) = 3
    /\ Len(tasks) = 3
    /\ Len(identify.parallel_groups) = 2
    /\ Len(identify.remaining_tasks) = 1
    /\ LET x == tasks[2].id
       IN  /\ identify.parallel_groups[2].value = <<x>>
           /\ plan.parallel_groups[2].value = <<x>>
           /\ tasks[3].id \in EffectiveDeps(tasks, x)
           /\ tasks[3].id \notin Range(Flatten(identify.parallel_groups))

(* ------------------------------- C13 ------------------------------------ *)
(* the keys are stage_0, stage_1, ... in order *)
ConsecutiveKeys(groups) ==
    \A p \in 1..Len(groups) : groups[p].key = p - 1

SamePairs ==
    /\ Len(executions) = Len(tasks)
    /\ \A k \in 1..Len(tasks) :
          /\ executions[k].id = tasks[k].id
          /\ executions[k].dependencies = tasks[k].dependencies

(* C13: on the same list of (id, dependencies) pairs the two copies return *)
(* the same consecutively numbered stage keys with the same ids in the     *)
(* same order in each stage                                                *)
C13_CopiesEquivalent ==
    /\ (plan # None /\ todo_plan = None) => pc # "raised"
    /\ (plan = None /\ todo_plan # None) => pc # "raised"
    /\ (BothReturned /\ SamePairs) =>
          /\ plan.parallel_groups = todo_plan.parallel_groups
          /\ ConsecutiveKeys(plan.parallel_groups)
          /\ ConsecutiveKeys(todo_plan.parallel_groups)

(* a(b), b(a), c(a): a forced stage followed by a stage of two *)
C13_Witness ==
    /\ BothReturned
    /\ SamePairs
    /\ pc = "idle"
    /\ Len(tasks) = 3
    /\ \E x \in IdsOf(tasks) : OnCycle(tasks, x)
    /\ Len(todo_plan.parallel_groups) = 2
    /\ Len(todo_plan.parallel_groups[1].value) = 1
    /\ Len(todo_plan.parallel_groups[2].value) = 2
    /\ Len(plan.parallel_groups) = 2

(* ------------------------------- C14 ------------------------------------ *)
(* the executions that execution j names as its dependencies *)
DependenciesOf(j) ==
    {i \in 1..Len(executions) :
        executions[i].id \in Range(executions[j].dependencies)}

SameStage(i, j) == StagePos(i) = StagePos(j)

RECURSIVE SumExecutions(_)
SumExecutions(stage_results) ==
    IF stage_results = <<>> THEN 0
    ELSE Head(stage_results).value.executions + SumExecutions(Tail(stage_results))

(* C15: in the result of execute_plan on a plan with unique ids the three  *)
(* counters add up to total_tasks, skipped_tasks is 0 and the per-stage    *)
(* 'executions' counts add up to total_tasks                               *)
C15_CountersAddUp ==
    (pc = "returned" /\ UniqueIds(executions) /\ max_parallel >= 1) =>
        /\ results.total_tasks = Len(executions)
        /\ results.completed_tasks + results.failed_tasks
               + results.skipped_tasks = results.total_tasks
        /\ results.skipped_tasks = 0
        /\ SumExecutions(results.stage_results) = results.total_tasks

(* three executions in two stages, one of them of two, one failure *)
C15_Witness ==
    /\ pc = "returned"
    /\ UniqueIds(executions)
    /\ results.total_tasks = 3
    /\ results.failed_tasks = 1
    /\ results.completed_tasks = 2
    /\ Len(results.stage_results) = 2
    /\ \E p \in 1..2 : results.stage_results[p].value.executions = 2
====
